---- MODULE Spec2Model ----
(***************************************************************************)
(* Teacher portal (server.js): the POST /api/ai/lesson handler, i.e. the   *)
(* tool-augmented generation session.  A session is one invocation of the  *)
(* async handler; it suspends at every `await` (the model-service call     *)
(* openaiClient.responses.create and the fetch inside performImageSearch)  *)
(* and runs atomically between two suspension points.  One action of the   *)
(* model is one such atomic segment, triggered by the arrival of the       *)
(* request or by the outcome of the awaited external call.                 *)
(***************************************************************************)
EXTENDS Integers, Sequences, FiniteSets, TLC

VARIABLES
    openaiClient,        \* TRUE iff the OpenAI client was constructed (credential present)
    pc,                  \* per session: position of the handler
    tools,               \* per session: the capability descriptor list
    resolvedImageQuery,  \* per session: the default image query
    response,            \* per session: the latest model response
    toolCalls,           \* per session: invocations collected from `response`
    safetyCounter,       \* per session: the round counter
    toolOutputs,         \* per session: results collected in the current round
    callIndex,           \* per session: position of the for-of loop in toolCalls
    request,             \* per session: model-service request in flight
    searches,            \* per session: image searches issued in the current round
    modelCalls,          \* per session: number of model-service calls issued
    searchCount,         \* per session: number of image searches issued
    onePerRound,         \* per session: every response so far carried exactly one
                         \*   invocation, an image_search
    raised,              \* per session: the error caught by the handler, if any
    reply,               \* per session: the HTTP response sent to the caller
    body,                \* per session: the fields of the request as received,
                         \*   kept where they are compared with what is sent
    lessons,             \* the `lessons` Map: entries in insertion order
    issued,              \* the ids crypto.randomUUID has returned
    lessonReply,         \* the latest lesson-route request and its reply
    uploadedFiles,       \* summarizeUploads: the uploaded files, `req.files`
    uploadContext,       \* summarizeUploads: the context built from them
    searchResponse,      \* performImageSearch: what its fetch resolved to
    searchResult,        \* performImageSearch: what it returned or threw
    activeLessonId,      \* browser: the lesson selected for editing, or null
    feedback,            \* browser: feedback.textContent
    lessonList,          \* browser: the lessons the rendered cards were built from
    inflight             \* browser: the async handlers that are suspended

sessionVars == <<openaiClient, pc, tools, resolvedImageQuery, response, toolCalls,
                 safetyCounter, toolOutputs, callIndex, request, searches,
                 modelCalls, searchCount, onePerRound, raised, reply, body>>

storeVars == <<lessons, issued, lessonReply>>

digestVars == <<uploadedFiles, uploadContext>>

searchVars == <<searchResponse, searchResult>>

functionVars == <<digestVars, searchVars>>

clientVars == <<activeLessonId, feedback, lessonList, inflight>>

vars == <<sessionVars, storeVars, functionVars, clientVars>>

(***************************************************************************)
(* Bounds and program constants                                            *)
(***************************************************************************)
MaxCalls == 2            \* longest output list of one model response

MAX_ROUNDS == 3          \* `safetyCounter < 3`

DefaultCount == 4        \* `count = 4`

SliceEnd == 4000         \* `.slice(0, 4000)`

Sessions == {"s1", "s2"}

Solo == {"s1"}

(***************************************************************************)
(* JavaScript values.  A value that may be missing is a tagged record.     *)
(***************************************************************************)
Undefined == [t |-> "undefined"]

Null == [t |-> "null"]

Str(v) == [t |-> "str", v |-> v]

Num(v) == [t |-> "num", v |-> v]

Obj(q, c) == [t |-> "obj", query |-> q, count |-> c]

None == [t |-> "none"]

\* JavaScript truthiness of the values used here
Truthy(x) ==
    CASE x.t = "undefined" -> FALSE
      [] x.t = "null" -> FALSE
      [] x.t = "str" -> x.v # ""
      [] x.t = "num" -> x.v # 0
      [] OTHER -> TRUE

\* String.prototype.trim on the query strings a caller submits
Trim(v) ==
    CASE v = "  " -> ""
      [] v = " chloroplast " -> "chloroplast"
      [] OTHER -> v

\* JSON.parse on the argument strings a model emits: ok = FALSE is a SyntaxError
JSONParse(v) ==
    CASE v = "{\"query\":\"leaf cells\",\"count\":2}" ->
             [ok |-> TRUE, value |-> Obj(Str("leaf cells"), Num(2))]
      [] v = "null" -> [ok |-> TRUE, value |-> Null]
      [] OTHER -> [ok |-> FALSE, value |-> Undefined]

(***************************************************************************)
(* The request fields the handler reads                                    *)
(***************************************************************************)
\* an uploaded file as multer keeps it in memory; the buffer is represented
\* by the text its bytes encode
File(originalname, text) == [originalname |-> originalname, buffer |-> [utf8 |-> text]]

Requests ==
    [includeWebSearch : {"true", "false"},
     imageSearchQuery : {Undefined, Str("  "), Str(" chloroplast ")},
     topic : {Str("Photosynthesis")},
     gradeLevel : {Str("Grade 7")},
     duration : {Undefined},
     objectives : {Str("Explain the light reaction")},
     youtubeUrl : {Undefined},
     files : {<<>>}]

\* the caller's query taken as it is
ResolveImageQueryUntrimmed(imageSearchQuery, topic) ==
    IF Truthy(imageSearchQuery) THEN imageSearchQuery.v
    ELSE (IF Truthy(topic) THEN topic.v ELSE "lesson")
             \o " classroom illustration"

\* imageSearchQuery?.trim() || `${topic || "lesson"} classroom illustration`
ResolveImageQuery(imageSearchQuery, topic) ==
    LET trimmed == IF imageSearchQuery.t = "str"
                   THEN Str(Trim(imageSearchQuery.v)) ELSE Undefined
    IN  IF Truthy(trimmed) THEN trimmed.v
        ELSE (IF Truthy(topic) THEN topic.v ELSE "lesson")
                 \o " classroom illustration"

WebSearchTool == [type |-> "web_search", name |-> "none"]

ImageSearchTool ==
    [type |-> "function",
     name |-> "image_search",
     parameters |-> [properties |-> [query |-> [type |-> "string"],
                                     count |-> [type |-> "number", default |-> 4]],
                     required |-> <<"query">>]]

\* a tools array that offers web search whatever the request asks
ToolsAlwaysWebSearch(includeWebSearch) ==
    <<WebSearchTool, ImageSearchTool>>

\* the `tools` array
Tools(includeWebSearch) ==
    (IF includeWebSearch = "true" THEN <<WebSearchTool>> ELSE <<>>)
        \o <<ImageSearchTool>>

(***************************************************************************)
(* Model responses                                                         *)
(***************************************************************************)
ArgGood == Str("{\"query\":\"leaf cells\",\"count\":2}")

ArgBad == Str("{query:")

ArgNull == Str("null")

Item(type, name, arguments) ==
    [type |-> type, name |-> name, arguments |-> arguments, call_id |-> <<0, 0>>]

\* the output items a model response is built from
Items ==
    { Item("function_call", "image_search", ArgGood),
      Item("tool_call", "image_search", ArgBad),
      Item("function_call", "image_search", ArgNull),
      Item("function_call", "image_search", Undefined),
      Item("function_call", "web_search", ArgGood),
      Item("message", "none", Undefined) }

RECURSIVE SeqsUpTo(_, _)
SeqsUpTo(S, n) ==
    IF n = 0 THEN {<<>>}
    ELSE LET shorter == SeqsUpTo(S, n - 1)
         IN  shorter \cup {Append(q, x) : q \in shorter, x \in S}

Outputs == SeqsUpTo(Items, MaxCalls)

\* output_text as the client library fills it in: the text of the message
\* items of the output, the empty string when there is none
OutputText(n, output) ==
    IF \E i \in 1..Len(output) : output[i].type = "message"
    THEN Str("lesson text " \o ToString(n)) ELSE Str("")

\* the n-th response of a session: ids are fresh, call ids unique
MakeResponse(n, output) ==
    [id |-> n,
     output |-> [i \in 1..Len(output) |-> [output[i] EXCEPT !.call_id = <<n, i>>]],
     output_text |-> OutputText(n, output)]

(***************************************************************************)
(* Pure helpers of the handler                                             *)
(***************************************************************************)
\* collectToolCalls: (response?.output || []).filter(type is tool_call or function_call)
IsToolCall(item) == item.type = "tool_call" \/ item.type = "function_call"

collectToolCalls(resp) == SelectSeq(resp.output, IsToolCall)

\* lines 181-189: the `args` of one image_search call
ParseArguments(call, defaultQuery) ==
    IF call.arguments.t = "str"
    THEN LET parsed == JSONParse(call.arguments.v)
         IN  IF parsed.ok THEN parsed.value
             ELSE Obj(Str(defaultQuery), Undefined)
    ELSE IF Truthy(call.arguments) THEN call.arguments
         ELSE Obj(Undefined, Undefined)

\* `args.query` / `args.count` throw a TypeError on null
ThrowsOnFieldRead(args) == args.t = "null" \/ args.t = "undefined"

ArgQuery(args) == IF args.t = "obj" THEN args.query ELSE Undefined

ArgCount(args) == IF args.t = "obj" THEN args.count ELSE Undefined

\* String(x) as URLSearchParams applies it to a parameter value
StringOf(x) ==
    CASE x.t = "str" -> x.v
      [] x.t = "num" -> ToString(x.v)
      [] x.t = "null" -> "null"
      [] OTHER -> "undefined"

\* a request that always asks for the default number of results
SearchRequestDefaultCount(call_id, query, count) ==
    [call_id |-> call_id,
     gsrsearch |-> StringOf(query),
     gsrlimit |-> StringOf(Num(DefaultCount))]

\* performImageSearch up to its fetch: the query string of the outgoing request
SearchRequest(call_id, query, count) ==
    [call_id |-> call_id,
     gsrsearch |-> StringOf(query),
     gsrlimit |-> StringOf(IF count.t = "undefined" THEN Num(DefaultCount) ELSE count)]

\* pages of a search payload; imageinfo is a list of urls or missing
PageWithImage == [title |-> "File:Leaf.jpg", imageinfo |-> <<"https://upload/leaf.jpg">>]

PageWithoutImage == [title |-> "Leaf (disambiguation)", imageinfo |-> <<>>]

Payloads == { <<PageWithoutImage, PageWithImage>> }

HasImage(page) == Len(page.imageinfo) > 0

ToImage(page) ==
    [title |-> page.title,
     url |-> page.imageinfo[1],
     pageUrl |-> "https://commons.wikimedia.org/wiki/" \o page.title]

\* performImageSearch after its fetch: pages.filter(...).map(...)
ImagesOf(pages) ==
    LET kept == SelectSeq(pages, HasImage)
    IN  [i \in 1..Len(kept) |-> ToImage(kept[i])]

\* response.output_text || ""
LessonText(resp) == IF Truthy(resp.output_text) THEN resp.output_text.v ELSE ""

\* response.output?.[0]?.content || []
Citations(resp) ==
    IF Len(resp.output) > 0 /\ resp.output[1].type = "message"
    THEN <<"annotation">> ELSE <<>>

\* Buffer.prototype.toString("utf8")
ToStringUtf8(buffer) == buffer.utf8

\* String.prototype.slice(0, end)
Slice(text, end) == SubSeq(text, 1, IF Len(text) < end THEN Len(text) ELSE end)

\* Array.prototype.join on a list of strings
RECURSIVE Join(_, _)
Join(strings, separator) ==
    IF strings = <<>> THEN ""
    ELSE IF Len(strings) = 1 THEN strings[1]
    ELSE strings[1] \o separator \o Join(Tail(strings), separator)

\* a digest that embeds each file whole
SummarizeFileWhole(file) ==
    "File: " \o file.originalname \o "\n" \o ToStringUtf8(file.buffer)

\* the callback of files.map in summarizeUploads
SummarizeFile(file) ==
    "File: " \o file.originalname \o "\n" \o Slice(ToStringUtf8(file.buffer), SliceEnd)

summarizeUploads(files) ==
    Join([i \in 1..Len(files) |-> SummarizeFile(files[i])], "\n\n")

\* lines 135-137
ContextFromFiles(files) ==
    IF Len(files) > 0 THEN summarizeUploads(files)
    ELSE "No uploaded files provided."

SystemPrompt ==
    "You are an assistant for teachers. Create structured lesson plans with citations. "
    \o "If you use facts from web search, cite them inline like [1], [2]. "
    \o "You may call the image_search tool to find image URLs and include them."

\* `${value || ""}`
OrEmpty(value) == IF Truthy(value) THEN value.v ELSE ""

\* line 144: the userPrompt template
UserPrompt(req, contextFromFiles, query) ==
    "Build a lesson plan in markdown with sections: Overview, \"Learning Objectives\", "
    \o "\"Materials\", \"Lesson Steps\", \"Assessment\", and \"Homework\".\n\n"
    \o "Topic: " \o OrEmpty(req.topic)
    \o "\nGrade level: " \o OrEmpty(req.gradeLevel)
    \o "\nDuration: " \o OrEmpty(req.duration)
    \o "\nObjectives: " \o OrEmpty(req.objectives)
    \o "\n\nInclude any relevant citations for facts.\n\nUploaded context for RAG:\n"
    \o contextFromFiles
    \o "\n\nIf images are requested, call image_search with this query: " \o query
    \o "\nYouTube link to include (if any): " \o OrEmpty(req.youtubeUrl)

NoResponse == [id |-> 0, output |-> <<>>, output_text |-> Str("")]

NoReply == [status |-> 0, content |-> Undefined, error |-> Undefined, citations |-> <<>>]

(***************************************************************************)
(* The handler, one atomic segment per operator.  A segment maps the       *)
(* session's local state `n` to its local state at the next suspension     *)
(* point or at the end of the handler.                                     *)
(***************************************************************************)
\* a catch block that issues the model-service call again
FailRetries(n, message) ==
    [n EXCEPT !.pc = "awaitModel",
              !.modelCalls = @ + 1]

\* the catch block: res.status(500).json({ error: error.message })
Fail(n, message) ==
    [n EXCEPT !.pc = "failed",
              !.request = None,
              !.reply = [status |-> 500, content |-> Undefined,
                         error |-> Str(message), citations |-> <<>>]]

\* an error is thrown inside the try block
Throw(n, message) == Fail([n EXCEPT !.raised = Str(message)], message)

\* a handler that ends without sending the lesson
CompleteWithoutReply(n) ==
    [n EXCEPT !.pc = "completed"]

\* lines 206-211: res.json({ content: lessonText, citations })
Complete(n) ==
    [n EXCEPT !.pc = "completed",
              !.reply = [status |-> 200, content |-> Str(LessonText(n.response)),
                         error |-> Undefined, citations |-> Citations(n.response)]]

\* a continuation that always names the first response
ResubmitFirstResponse(n) ==
    [n EXCEPT !.pc = "awaitModel",
              !.callIndex = 0,
              !.modelCalls = @ + 1,
              !.request = [input |-> <<>>,
                           previous_response_id |-> Num(1),
                           tools |-> n.tools,
                           tool_outputs |-> n.toolOutputs]]

\* lines 197-201: the continuation call of the round
Resubmit(n) ==
    [n EXCEPT !.pc = "awaitModel",
              !.callIndex = 0,
              !.modelCalls = @ + 1,
              !.request = [input |-> <<>>,
                           previous_response_id |-> Num(n.response.id),
                           tools |-> n.tools,
                           tool_outputs |-> n.toolOutputs]]

\* a loop that skips nothing
IsDispatchedAlways(call) == call.name = call.name

\* line 178: the calls the for-of loop does not skip
IsDispatched(call) == call.name = "image_search"

\* first position at or after i whose call is dispatched, Len + 1 if none
RECURSIVE NextDispatched(_, _)
NextDispatched(calls, i) ==
    IF i > Len(calls) THEN i
    ELSE IF IsDispatched(calls[i]) THEN i
    ELSE NextDispatched(calls, i + 1)

\* lines 177-195: the for-of loop from position i up to its next await
ForLoop(n, i) ==
    LET j == NextDispatched(n.toolCalls, i)
    IN  IF j > Len(n.toolCalls) THEN Resubmit(n)
        ELSE LET call == n.toolCalls[j]
                 args == ParseArguments(call, n.resolvedImageQuery)
             IN  IF ThrowsOnFieldRead(args)
                 THEN Throw([n EXCEPT !.callIndex = j],
                            "Cannot read properties of null (reading 'query')")
                 ELSE [n EXCEPT
                         !.pc = "awaitSearch",
                         !.callIndex = j,
                         !.searchCount = @ + 1,
                         !.searches = Append(@, SearchRequest(call.call_id,
                                                ArgQuery(args), ArgCount(args)))]

\* the loop test without the round bound
WhileLoopUnbounded(n) ==
    IF Len(n.toolCalls) > 0
    THEN ForLoop([n EXCEPT !.toolOutputs = <<>>], 1)
    ELSE Complete(n)

\* the loop test with the bound off by one
WhileLoopOffByOne(n) ==
    IF Len(n.toolCalls) > 0 /\ n.safetyCounter <= MAX_ROUNDS
    THEN ForLoop([n EXCEPT !.toolOutputs = <<>>], 1)
    ELSE Complete(n)

\* line 175: the loop test, then either a round or the response to the caller
WhileLoop(n) ==
    IF Len(n.toolCalls) > 0 /\ n.safetyCounter < MAX_ROUNDS
    THEN ForLoop([n EXCEPT !.toolOutputs = <<>>], 1)
    ELSE Complete(n)

\* a continuation whose result is not assigned to `response`
OnModelResponseKeepsFirst(n, resp) ==
    LET first == n.request.previous_response_id = Undefined
        calls == collectToolCalls(resp)
    IN  WhileLoop([n EXCEPT
                     !.response = IF first THEN resp ELSE @,
                     !.toolCalls = calls,
                     !.onePerRound = @ /\ Len(calls) = 1 /\ calls[1].name = "image_search",
                     !.safetyCounter = IF first THEN 0 ELSE @ + 1,
                     !.toolOutputs = <<>>,
                     !.searches = <<>>,
                     !.request = None])

\* the counter advanced only by rounds that produced a result
OnModelResponseSkipsEmptyRounds(n, resp) ==
    LET first == n.request.previous_response_id = Undefined
        calls == collectToolCalls(resp)
    IN  WhileLoop([n EXCEPT
                     !.response = resp,
                     !.toolCalls = calls,
                     !.onePerRound = @ /\ Len(calls) = 1 /\ calls[1].name = "image_search",
                     !.safetyCounter = IF first THEN 0
                                       ELSE IF n.toolOutputs = <<>> THEN @ ELSE @ + 1,
                     !.toolOutputs = <<>>,
                     !.searches = <<>>,
                     !.request = None])

\* lines 163-173 and 197-203: a responses.create call has returned `resp`
OnModelResponse(n, resp) ==
    LET first == n.request.previous_response_id = Undefined
        calls == collectToolCalls(resp)
    IN  WhileLoop([n EXCEPT
                     !.response = resp,
                     !.toolCalls = calls,
                     !.onePerRound = @ /\ Len(calls) = 1 /\ calls[1].name = "image_search",
                     !.safetyCounter = IF first THEN 0 ELSE @ + 1,
                     !.toolOutputs = <<>>,
                     !.searches = <<>>,
                     !.request = None])

\* results collected at the front of the list
OnSearchResultUnshifts(n, pages) ==
    LET call == n.toolCalls[n.callIndex]
        pushed == <<[tool_call_id |-> call.call_id,
                     output |-> [results |-> ImagesOf(pages)]]>> \o n.toolOutputs
    IN  ForLoop([n EXCEPT !.toolOutputs = pushed], n.callIndex + 1)

\* lines 190-194: performImageSearch has returned the pages of its payload
OnSearchResult(n, pages) ==
    LET call == n.toolCalls[n.callIndex]
        pushed == Append(n.toolOutputs,
                         [tool_call_id |-> call.call_id,
                          output |-> [results |-> ImagesOf(pages)]])
    IN  ForLoop([n EXCEPT !.toolOutputs = pushed], n.callIndex + 1)

\* a handler without the credential check
OnRequestUnchecked(n, client, req) ==
    LET query == ResolveImageQuery(req.imageSearchQuery, req.topic)
        descriptors == Tools(req.includeWebSearch)
    IN  [n EXCEPT
           !.pc = "awaitModel",
           !.resolvedImageQuery = query,
           !.tools = descriptors,
           !.modelCalls = @ + 1,
           !.request = [input |-> << [role |-> "system", content |-> SystemPrompt],
                                     [role |-> "user",
                                      content |-> UserPrompt(req, ContextFromFiles(req.files),
                                                            query)] >>,
                        previous_response_id |-> Undefined,
                        tools |-> descriptors,
                        tool_outputs |-> <<>>]]

\* lines 116-170: the handler up to its first await
OnRequest(n, client, req) ==
    IF ~client
    THEN [n EXCEPT !.pc = "failed",
                   !.reply = [status |-> 500, content |-> Undefined,
                              error |-> Str("OPENAI_API_KEY is not configured."),
                              citations |-> <<>>]]
    ELSE LET query == ResolveImageQuery(req.imageSearchQuery, req.topic)
             descriptors == Tools(req.includeWebSearch)
         IN  [n EXCEPT
                !.pc = "awaitModel",
                !.resolvedImageQuery = query,
                !.tools = descriptors,
                !.modelCalls = @ + 1,
                !.request = [input |-> << [role |-> "system", content |-> SystemPrompt],
                                          [role |-> "user",
                                           content |-> UserPrompt(req, ContextFromFiles(req.files),
                                                            query)] >>,
                             previous_response_id |-> Undefined,
                             tools |-> descriptors,
                             tool_outputs |-> <<>>]]

(***************************************************************************)
(* State                                                                   *)
(***************************************************************************)
Cur(s) ==
    [pc |-> pc[s], tools |-> tools[s], resolvedImageQuery |-> resolvedImageQuery[s],
     response |-> response[s], toolCalls |-> toolCalls[s],
     safetyCounter |-> safetyCounter[s], toolOutputs |-> toolOutputs[s],
     callIndex |-> callIndex[s], request |-> request[s], searches |-> searches[s],
     modelCalls |-> modelCalls[s], searchCount |-> searchCount[s],
     onePerRound |-> onePerRound[s],
     raised |-> raised[s], reply |-> reply[s], body |-> body[s]]

\* a round counter declared at module level, shared by all invocations
CommitSharedCounter(s, n) ==
    /\ pc' = [pc EXCEPT ![s] = n.pc]
    /\ tools' = [tools EXCEPT ![s] = n.tools]
    /\ resolvedImageQuery' = [resolvedImageQuery EXCEPT ![s] = n.resolvedImageQuery]
    /\ response' = [response EXCEPT ![s] = n.response]
    /\ toolCalls' = [toolCalls EXCEPT ![s] = n.toolCalls]
    /\ safetyCounter' = [t \in Sessions |-> n.safetyCounter]
    /\ toolOutputs' = [toolOutputs EXCEPT ![s] = n.toolOutputs]
    /\ callIndex' = [callIndex EXCEPT ![s] = n.callIndex]
    /\ request' = [request EXCEPT ![s] = n.request]
    /\ searches' = [searches EXCEPT ![s] = n.searches]
    /\ modelCalls' = [modelCalls EXCEPT ![s] = n.modelCalls]
    /\ searchCount' = [searchCount EXCEPT ![s] = n.searchCount]
    /\ onePerRound' = [onePerRound EXCEPT ![s] = n.onePerRound]
    /\ raised' = [raised EXCEPT ![s] = n.raised]
    /\ reply' = [reply EXCEPT ![s] = n.reply]
    /\ body' = [body EXCEPT ![s] = n.body]
    /\ UNCHANGED <<openaiClient, storeVars, functionVars, clientVars>>

\* the locals of invocation s of the handler after a segment
Commit(s, n) ==
    /\ pc' = [pc EXCEPT ![s] = n.pc]
    /\ tools' = [tools EXCEPT ![s] = n.tools]
    /\ resolvedImageQuery' = [resolvedImageQuery EXCEPT ![s] = n.resolvedImageQuery]
    /\ response' = [response EXCEPT ![s] = n.response]
    /\ toolCalls' = [toolCalls EXCEPT ![s] = n.toolCalls]
    /\ safetyCounter' = [safetyCounter EXCEPT ![s] = n.safetyCounter]
    /\ toolOutputs' = [toolOutputs EXCEPT ![s] = n.toolOutputs]
    /\ callIndex' = [callIndex EXCEPT ![s] = n.callIndex]
    /\ request' = [request EXCEPT ![s] = n.request]
    /\ searches' = [searches EXCEPT ![s] = n.searches]
    /\ modelCalls' = [modelCalls EXCEPT ![s] = n.modelCalls]
    /\ searchCount' = [searchCount EXCEPT ![s] = n.searchCount]
    /\ onePerRound' = [onePerRound EXCEPT ![s] = n.onePerRound]
    /\ raised' = [raised EXCEPT ![s] = n.raised]
    /\ reply' = [reply EXCEPT ![s] = n.reply]
    /\ body' = [body EXCEPT ![s] = n.body]
    /\ UNCHANGED <<openaiClient, storeVars, functionVars, clientVars>>

SessionInit ==
    /\ openaiClient \in BOOLEAN
    /\ pc = [s \in Sessions |-> "idle"]
    /\ tools = [s \in Sessions |-> <<>>]
    /\ resolvedImageQuery = [s \in Sessions |-> ""]
    /\ response = [s \in Sessions |-> NoResponse]
    /\ toolCalls = [s \in Sessions |-> <<>>]
    /\ safetyCounter = [s \in Sessions |-> 0]
    /\ toolOutputs = [s \in Sessions |-> <<>>]
    /\ callIndex = [s \in Sessions |-> 0]
    /\ request = [s \in Sessions |-> None]
    /\ searches = [s \in Sessions |-> <<>>]
    /\ modelCalls = [s \in Sessions |-> 0]
    /\ searchCount = [s \in Sessions |-> 0]
    /\ onePerRound = [s \in Sessions |-> TRUE]
    /\ raised = [s \in Sessions |-> Undefined]
    /\ reply = [s \in Sessions |-> NoReply]
    /\ body = [s \in Sessions |-> None]

StoreInit ==
    /\ lessons = <<>>
    /\ issued = {}
    /\ lessonReply = None

DigestInit ==
    /\ uploadedFiles = <<>>
    /\ uploadContext = None

SearchInit ==
    /\ searchResponse = None
    /\ searchResult = None

\* the browser's async handlers that can be suspended at the same time
Handlers == {"h1", "h2"}

\* a suspended handler: what it awaits, the request of its fetch, and the
\* response once the server has replied (status 0: no reply yet)
NoHandler ==
    [kind |-> "none", at |-> "none", method |-> "none", id |-> Null,
     data |-> None, status |-> 0, listed |-> <<>>]

\* loadLessons up to its fetch
LoadLessons(kind) ==
    [kind |-> kind, at |-> "awaitList", method |-> "GET", id |-> Null,
     data |-> None, status |-> 0, listed |-> <<>>]

\* the script has run: nothing selected, the first loadLessons() suspended
ClientInit ==
    /\ activeLessonId = Null
    /\ feedback = ""
    /\ lessonList = <<>>
    /\ inflight = [h \in Handlers |-> IF h = "h1" THEN LoadLessons("load") ELSE NoHandler]

Init ==
    /\ SessionInit
    /\ StoreInit
    /\ DigestInit
    /\ SearchInit
    /\ ClientInit

(***************************************************************************)
(* Actions                                                                 *)
(***************************************************************************)
\* a POST /api/ai/lesson request reaches the handler
Receive(s) ==
    /\ pc[s] = "idle"
    /\ \E req \in Requests : Commit(s, OnRequest(Cur(s), openaiClient, req))

\* the awaited responses.create resolves
ModelReturns(s) ==
    /\ pc[s] = "awaitModel"
    /\ \E output \in Outputs :
          Commit(s, OnModelResponse(Cur(s), MakeResponse(modelCalls[s], output)))

\* the awaited responses.create rejects
ModelRaises(s) ==
    /\ pc[s] = "awaitModel"
    /\ Commit(s, Throw(Cur(s), "model service error"))

\* the awaited performImageSearch resolves
SearchReturns(s) ==
    /\ pc[s] = "awaitSearch"
    /\ \E pages \in Payloads : Commit(s, OnSearchResult(Cur(s), pages))

\* the awaited performImageSearch rejects: !response.ok, or fetch itself fails
SearchFails(s) ==
    /\ pc[s] = "awaitSearch"
    /\ \E message \in {"Image search failed.", "fetch failed"} :
          Commit(s, Throw(Cur(s), message))

Step(s) ==
    \/ Receive(s)
    \/ ModelReturns(s)
    \/ ModelRaises(s)
    \/ SearchReturns(s)
    \/ SearchFails(s)

Next == \E s \in Solo : Step(s)

Spec == Init /\ [][Next]_vars

(***************************************************************************)
(* Two sessions in flight at once.  The event loop runs one atomic segment *)
(* of one handler invocation at a time, in any order.  The inputs are a    *)
(* smaller selection, so that every interleaving is covered.               *)
(***************************************************************************)
ConcRequests ==
    [includeWebSearch : {"true", "false"},
     imageSearchQuery : {Undefined},
     topic : {Str("Photosynthesis")},
     gradeLevel : {Str("Grade 7")},
     duration : {Undefined},
     objectives : {Str("Explain the light reaction")},
     youtubeUrl : {Undefined},
     files : {<<>>}]

ConcOutputs ==
    { <<>>,
      <<Item("message", "none", Undefined)>>,
      <<Item("function_call", "image_search", ArgGood)>>,
      <<Item("function_call", "web_search", ArgGood)>> }

\* a POST /api/ai/lesson request reaches the handler; its fields are recorded
ReceiveRecorded(s) ==
    /\ pc[s] = "idle"
    /\ \E req \in ConcRequests :
          Commit(s, [OnRequest(Cur(s), openaiClient, req) EXCEPT !.body = req])

\* the awaited responses.create resolves
ModelReturnsSome(s) ==
    /\ pc[s] = "awaitModel"
    /\ \E output \in ConcOutputs :
          Commit(s, OnModelResponse(Cur(s), MakeResponse(modelCalls[s], output)))

ConcStep(s) ==
    \/ ReceiveRecorded(s)
    \/ ModelReturnsSome(s)
    \/ ModelRaises(s)
    \/ SearchReturns(s)
    \/ SearchFails(s)

ConcNext == \E s \in Sessions : ConcStep(s)

ConcSpec == Init /\ [][ConcNext]_vars

(***************************************************************************)
(* The prompts as a function of the request: two invocations of the        *)
(* handler build their prompts, in either order.                           *)
(***************************************************************************)
PromptRequests ==
    [includeWebSearch : {"true", "false"},
     imageSearchQuery : {Undefined, Str("  "), Str(" chloroplast ")},
     topic : {Undefined, Str("Photosynthesis")},
     gradeLevel : {Str("Grade 7")},
     duration : {Undefined},
     objectives : {Str("Explain the light reaction")},
     youtubeUrl : {Undefined},
     files : {<<>>, <<File("notes.md", "Light, water, CO2")>>}]

\* lines 116-170 on any of these requests; the fields are recorded
BuildPrompts(s) ==
    /\ pc[s] = "idle"
    /\ \E req \in PromptRequests :
          Commit(s, [OnRequest(Cur(s), openaiClient, req) EXCEPT !.body = req])

PromptNext == \E s \in Sessions : BuildPrompts(s)

PromptSpec == Init /\ [][PromptNext]_vars

(***************************************************************************)
(* The lesson record store: the `lessons` Map and its four routes.  A Map  *)
(* keeps its entries in insertion order; `set` on a present key keeps the  *)
(* entry's position.  Each route handler is synchronous, hence one action. *)
(***************************************************************************)
MaxLessons == 2          \* ids crypto.randomUUID can return

LessonIds == 1..MaxLessons

\* the reading of the clock, `new Date().toISOString()`
Times == {"2024-01-01T09:00:00.000Z"}

\* the fields of a lesson a request body carries; title and content stand
\* for the six fields the handlers treat alike
LessonBodies ==
    [title : {Undefined, Str(""), Str("Cells")},
     content : {Undefined, Str("Mitosis")}]

\* Map.prototype.has / get / set / delete / values
RECURSIVE MapIndex(_, _)
MapIndex(map, key) ==
    IF map = <<>> THEN 0
    ELSE IF map[Len(map)].key = key THEN Len(map)
    ELSE MapIndex(SubSeq(map, 1, Len(map) - 1), key)

MapHas(map, key) == MapIndex(map, key) > 0

MapGet(map, key) == IF MapHas(map, key) THEN map[MapIndex(map, key)].value ELSE Undefined

\* a set that appends an entry even when the key is present
MapSetAppends(map, key, value) ==
    Append(map, [key |-> key, value |-> value])

MapSet(map, key, value) ==
    IF MapHas(map, key)
    THEN [map EXCEPT ![MapIndex(map, key)] = [key |-> key, value |-> value]]
    ELSE Append(map, [key |-> key, value |-> value])

MapDelete(map, key) ==
    LET Others(entry) == entry.key # key
    IN  SelectSeq(map, Others)

MapValues(map) == [i \in 1..Len(map) |-> map[i].value]

\* x || y and x ?? y
OrElse(x, y) == IF Truthy(x) THEN x ELSE y

Coalesce(x, y) == IF x = Undefined \/ x = Null THEN y ELSE x

NotFound == [status |-> 404, body |-> [error |-> "Lesson not found"]]

\* lines 68-70: GET /api/lessons
GetLessons(map) ==
    [lessons |-> map, reply |-> [status |-> 200, body |-> MapValues(map)]]

\* lines 72-85: POST /api/lessons
PostLessons(map, uuid, reqBody, now) ==
    LET lesson == [id |-> uuid,
                   title |-> OrElse(reqBody.title, Str("Untitled lesson")),
                   content |-> OrElse(reqBody.content, Str("")),
                   updatedAt |-> now]
    IN  [lessons |-> MapSet(map, lesson.id, lesson),
         reply |-> [status |-> 201, body |-> lesson]]

\* an update that stores the request body under the id when none is stored
PutLessonUpserts(map, id, reqBody, now) ==
    LET lesson == IF MapHas(map, id) THEN MapGet(map, id)
                  ELSE [id |-> id, title |-> Str(""), content |-> Str(""),
                        updatedAt |-> now]
        updated == [lesson EXCEPT
                      !.title = Coalesce(reqBody.title, lesson.title),
                      !.content = Coalesce(reqBody.content, lesson.content),
                      !.updatedAt = now]
    IN  [lessons |-> MapSet(map, updated.id, updated),
         reply |-> [status |-> 200, body |-> updated]]

\* lines 87-105: PUT /api/lessons/:id
PutLesson(map, id, reqBody, now) ==
    LET lesson == MapGet(map, id)
    IN  IF ~MapHas(map, id) THEN [lessons |-> map, reply |-> NotFound]
        ELSE LET updated == [lesson EXCEPT
                               !.title = Coalesce(reqBody.title, lesson.title),
                               !.content = Coalesce(reqBody.content, lesson.content),
                               !.updatedAt = now]
             IN  [lessons |-> MapSet(map, updated.id, updated),
                  reply |-> [status |-> 200, body |-> updated]]

\* lines 107-114: DELETE /api/lessons/:id
DeleteLesson(map, id) ==
    IF ~MapHas(map, id) THEN [lessons |-> map, reply |-> NotFound]
    ELSE [lessons |-> MapDelete(map, id),
          reply |-> [status |-> 204, body |-> Undefined]]

\* a route handler has run: its effect on the Map, and the exchange
Served(method, id, outcome) ==
    /\ lessons' = outcome.lessons
    /\ lessonReply' = [method |-> method, id |-> id,
                       status |-> outcome.reply.status, body |-> outcome.reply.body]

List ==
    /\ Served("GET", Undefined, GetLessons(lessons))
    /\ UNCHANGED <<issued, sessionVars, functionVars, clientVars>>

Create ==
    \E uuid \in LessonIds \ issued, reqBody \in LessonBodies, now \in Times :
        /\ Served("POST", Undefined, PostLessons(lessons, uuid, reqBody, now))
        /\ issued' = issued \cup {uuid}
        /\ UNCHANGED <<sessionVars, functionVars, clientVars>>

Update ==
    \E id \in LessonIds, reqBody \in LessonBodies, now \in Times :
        /\ Served("PUT", Num(id), PutLesson(lessons, id, reqBody, now))
        /\ UNCHANGED <<issued, sessionVars, functionVars, clientVars>>

Delete ==
    \E id \in LessonIds :
        /\ Served("DELETE", Num(id), DeleteLesson(lessons, id))
        /\ UNCHANGED <<issued, sessionVars, functionVars, clientVars>>

StoreNext == List \/ Create \/ Update \/ Delete

StoreSpec == Init /\ [][StoreNext]_vars

(***************************************************************************)
(* The browser client (part_000) against the lesson routes.  A click or a  *)
(* submit runs its handler up to the first await; a suspended handler      *)
(* resumes when the server has replied.  Clicks, the server's handling of  *)
(* a request and the resumption of a handler interleave in any order.      *)
(***************************************************************************)
\* getFormData: the lesson fields of the form
FormData == {[title |-> Str("Cells"), content |-> Str("")]}

\* lines 49-63: Edit on the i-th card
ClickEdit(i) ==
    /\ i \in 1..Len(lessonList)
    /\ activeLessonId' = Num(lessonList[i].id)
    /\ UNCHANGED <<feedback, lessonList, inflight, sessionVars, storeVars, functionVars>>

\* lines 65-70: Delete on the i-th card, up to its fetch
ClickDelete(i, h) ==
    /\ i \in 1..Len(lessonList)
    /\ inflight[h] = NoHandler
    /\ inflight' = [inflight EXCEPT ![h] =
                       [kind |-> "delete", at |-> "awaitFetch", method |-> "DELETE",
                        id |-> Num(lessonList[i].id), data |-> None,
                        status |-> 0, listed |-> <<>>]]
    /\ UNCHANGED <<activeLessonId, feedback, lessonList,
                   sessionVars, storeVars, functionVars>>

\* lines 108-119: the submit handler up to its fetch
SubmitForm(h) ==
    /\ inflight[h] = NoHandler
    /\ \E data \in FormData :
          inflight' = [inflight EXCEPT ![h] =
                         [kind |-> "submit", at |-> "awaitFetch",
                          method |-> IF Truthy(activeLessonId) THEN "PUT" ELSE "POST",
                          id |-> activeLessonId, data |-> data,
                          status |-> 0, listed |-> <<>>]]
    /\ UNCHANGED <<activeLessonId, feedback, lessonList,
                   sessionVars, storeVars, functionVars>>

\* lines 130-134: Reset
ClickReset ==
    /\ activeLessonId' = Null
    /\ feedback' = ""
    /\ UNCHANGED <<lessonList, inflight, sessionVars, storeVars, functionVars>>

\* the server handles the request of handler h and replies
Replied(h, outcome) ==
    inflight' = [inflight EXCEPT ![h].status = outcome.reply.status,
                                 ![h].listed = IF inflight[h].method = "GET"
                                               THEN outcome.reply.body ELSE <<>>]

ServerReplies(h) ==
    /\ inflight[h].at \in {"awaitFetch", "awaitList"}
    /\ inflight[h].status = 0
    /\ \E now \in Times :
          CASE inflight[h].method = "GET" ->
                   LET outcome == GetLessons(lessons)
                   IN  /\ Served("GET", Undefined, outcome)
                       /\ Replied(h, outcome)
                       /\ UNCHANGED issued
            [] inflight[h].method = "POST" ->
                   \E uuid \in LessonIds \ issued :
                       LET outcome == PostLessons(lessons, uuid, inflight[h].data, now)
                       IN  /\ Served("POST", Undefined, outcome)
                           /\ Replied(h, outcome)
                           /\ issued' = issued \cup {uuid}
            [] inflight[h].method = "PUT" ->
                   LET outcome == PutLesson(lessons, inflight[h].id.v,
                                            inflight[h].data, now)
                   IN  /\ Served("PUT", inflight[h].id, outcome)
                       /\ Replied(h, outcome)
                       /\ UNCHANGED issued
            [] inflight[h].method = "DELETE" ->
                   LET outcome == DeleteLesson(lessons, inflight[h].id.v)
                   IN  /\ Served("DELETE", inflight[h].id, outcome)
                       /\ Replied(h, outcome)
                       /\ UNCHANGED issued
    /\ UNCHANGED <<activeLessonId, feedback, lessonList, sessionVars, functionVars>>

\* lines 121-127 and line 69: the awaited fetch of a submit or of a delete has
\* resolved; the handler runs on, up to the fetch of loadLessons
FetchResolves(h) ==
    /\ inflight[h].at = "awaitFetch"
    /\ inflight[h].status # 0
    /\ inflight' = [inflight EXCEPT ![h] = LoadLessons(inflight[h].kind)]
    /\ IF inflight[h].kind = "submit"
       THEN /\ feedback' = IF Truthy(activeLessonId)
                           THEN "Lesson updated." ELSE "Lesson saved."
            /\ activeLessonId' = Null
       ELSE UNCHANGED <<activeLessonId, feedback>>
    /\ UNCHANGED <<lessonList, sessionVars, storeVars, functionVars>>

\* lines 77-79: the fetch of loadLessons has resolved; renderLessons
ListResolves(h) ==
    /\ inflight[h].at = "awaitList"
    /\ inflight[h].status # 0
    /\ lessonList' = inflight[h].listed
    /\ inflight' = [inflight EXCEPT ![h] = NoHandler]
    /\ UNCHANGED <<activeLessonId, feedback, sessionVars, storeVars, functionVars>>

ClientNext ==
    \/ \E i \in 1..MaxLessons : ClickEdit(i)
    \/ \E i \in 1..MaxLessons, h \in Handlers : ClickDelete(i, h)
    \/ \E h \in Handlers : SubmitForm(h)
    \/ ClickReset
    \/ \E h \in Handlers : ServerReplies(h)
    \/ \E h \in Handlers : FetchResolves(h)
    \/ \E h \in Handlers : ListResolves(h)

ClientSpec == Init /\ [][ClientNext]_vars

(***************************************************************************)
(* The upload digest as a function of the uploaded files                   *)
(***************************************************************************)
MaxFiles == 2            \* longest list of uploaded files

\* a text of n characters: a head, a body and, from the second character
\* on, a last character that differs from both
RECURSIVE Repeat(_, _)
Repeat(char, n) ==
    IF n = 0 THEN ""
    ELSE IF n % 2 = 0 THEN LET half == Repeat(char, n \div 2) IN half \o half
    ELSE char \o Repeat(char, n - 1)

Text(n) ==
    IF n = 0 THEN ""
    ELSE IF n = 1 THEN "H"
    ELSE "H" \o Repeat("b", n - 2) \o "T"

TextLengths == {0, 3, 3999, 4000, 4001, 10000}

Uploads == {File(name, Text(n)) : name \in {"notes.md", "syllabus.txt"}, n \in TextLengths}

UploadLists == SeqsUpTo(Uploads, MaxFiles)

DigestSpecInit ==
    /\ SessionInit
    /\ StoreInit
    /\ SearchInit
    /\ ClientInit
    /\ uploadedFiles \in UploadLists
    /\ uploadContext = None

\* lines 135-137 applied to the uploaded files
Summarize ==
    /\ uploadContext = None
    /\ uploadContext' = Str(ContextFromFiles(uploadedFiles))
    /\ UNCHANGED <<uploadedFiles, sessionVars, storeVars, searchVars, clientVars>>

DigestSpec == DigestSpecInit /\ [][Summarize]_vars

(***************************************************************************)
(* performImageSearch as a function of what its fetch resolves to.  The    *)
(* `pages` member of the payload is a JSON object keyed by page id: its    *)
(* members are listed in the order the service wrote them.                 *)
(***************************************************************************)
MaxPages == 2            \* most pages of one payload

PageIds == {3, 7, 12}

Page(id, imageinfo) == [title |-> "File:Leaf " \o ToString(id) \o ".jpg", imageinfo |-> imageinfo]

\* the members a pages object can hold: with or without image info
Members ==
    {[key |-> id, value |-> Page(id, imageinfo)] :
         id \in PageIds,
         imageinfo \in {<<>>, <<"https://upload.wikimedia.org/leaf.jpg">>}}

DistinctKeys(object) ==
    \A i, j \in 1..Len(object) : object[i].key = object[j].key => i = j

\* payloads: no `query` member (nothing found), or a pages object
SearchPayloads ==
    {[query |-> Undefined]}
    \cup {[query |-> [pages |-> object]] :
              object \in {o \in SeqsUpTo(Members, MaxPages) : DistinctKeys(o)}}

\* Object.values of an object whose keys are integers: ascending key order
ObjectValues(object) ==
    LET Rank(i) == Cardinality({j \in 1..Len(object) : object[j].key <= object[i].key})
    IN  [r \in 1..Len(object) |->
            object[CHOOSE i \in 1..Len(object) : Rank(i) = r].value]

\* lines 39-50: performImageSearch from the resolution of its fetch on
performImageSearch(fetched) ==
    IF ~fetched.ok
    THEN [threw |-> Str("Image search failed."), returned |-> Undefined]
    ELSE LET payload == fetched.json
             pages == IF payload.query # Undefined /\ payload.query.pages # <<>>
                      THEN ObjectValues(payload.query.pages) ELSE <<>>
         IN  [threw |-> Undefined, returned |-> ImagesOf(pages)]

SearchSpecInit ==
    /\ SessionInit
    /\ StoreInit
    /\ DigestInit
    /\ ClientInit
    /\ searchResponse \in [ok : BOOLEAN, json : SearchPayloads]
    /\ searchResult = None

\* the fetch of performImageSearch has resolved
Search ==
    /\ searchResult = None
    /\ searchResult' = performImageSearch(searchResponse)
    /\ UNCHANGED <<searchResponse, sessionVars, storeVars, digestVars, clientVars>>

SearchSpec == SearchSpecInit /\ [][Search]_vars

(***************************************************************************)
(* Properties of a generation session                                      *)
(***************************************************************************)
Terminal(s) == pc[s] = "completed" \/ pc[s] = "failed"

\* model responses the handler has received so far: the n-th has id n
Received(s) == response[s].id

\* what is left to do, ordered lexicographically: model responses that may
\* still arrive, then invocations of the current round still to execute
Rank(s) ==
    CASE Terminal(s) -> <<0, 0>>
      [] pc[s] = "idle" -> <<MAX_ROUNDS + 2, 0>>
      [] pc[s] = "awaitSearch" ->
            <<MAX_ROUNDS + 1 - Received(s), Len(toolCalls[s]) - callIndex[s] + 1>>
      [] OTHER -> <<MAX_ROUNDS + 1 - Received(s), 0>>

LexLess(a, b) == a[1] < b[1] \/ (a[1] = b[1] /\ a[2] < b[2])

\* C1: a session issues at most MAX_ROUNDS + 1 = 4 model-service calls, is
\* Completed or Failed once the fourth has returned, and every step it takes
\* strictly decreases a well-founded rank, so it cannot loop indefinitely.
C1_Termination ==
    /\ [](\A s \in Sessions :
            /\ modelCalls[s] <= MAX_ROUNDS + 1
            /\ Rank(s)[1] >= 0 /\ Rank(s)[2] >= 0
            /\ (Received(s) = MAX_ROUNDS + 1 => Terminal(s)))
    /\ [][\A s \in Sessions : Cur(s)' # Cur(s) => LexLess(Rank(s)', Rank(s))]_vars

\* every response carried an invocation and the fourth call has returned
C1_Witness ==
    \E s \in Sessions :
        /\ modelCalls[s] = MAX_ROUNDS + 1
        /\ pc[s] = "completed"
        /\ toolCalls[s] # <<>>

\* C2: the round counter stays within 0..MAX_ROUNDS, is 0 until the first
\* round completes, changes only by +1 and only when the continuation call of
\* a round returns, and a session whose counter is MAX_ROUNDS is Completed.
C2_RoundCounter ==
    /\ [](\A s \in Sessions :
            /\ safetyCounter[s] \in 0..MAX_ROUNDS
            /\ (modelCalls[s] <= 1 => safetyCounter[s] = 0)
            /\ (safetyCounter[s] = MAX_ROUNDS => pc[s] = "completed"))
    /\ [][\A s \in Sessions :
            LET returned == /\ pc[s] = "awaitModel"
                            /\ request[s].previous_response_id # Undefined
                            /\ response'[s] # response[s]
            IN  /\ returned => safetyCounter'[s] = safetyCounter[s] + 1
                /\ ~returned => safetyCounter'[s] = safetyCounter[s]]_vars

\* the counter is at its bound and the latest response still carries two invocations
C2_Witness ==
    \E s \in Sessions :
        /\ safetyCounter[s] = MAX_ROUNDS
        /\ Len(toolCalls[s]) >= 2
        /\ Terminal(s)

\* C3: when the response that arrives at round MAX_ROUNDS still carries
\* invocations the session is Completed without an error, none of those
\* invocations is executed, the content is that response's text (possibly
\* empty), and with one image_search per round exactly MAX_ROUNDS searches
\* were issued.
C3_ForcedCompletion ==
    \A s \in Sessions :
        (safetyCounter[s] = MAX_ROUNDS /\ toolCalls[s] # <<>>) =>
            /\ pc[s] = "completed"
            /\ raised[s] = Undefined
            /\ reply[s].status = 200 /\ reply[s].error = Undefined
            /\ reply[s].content = response[s].output_text
            /\ response[s].id = MAX_ROUNDS + 1
            /\ searches[s] = <<>>
            /\ toolOutputs[s] = <<>>
            /\ (onePerRound[s] => searchCount[s] = MAX_ROUNDS)

\* one image_search on each of the four responses, the last one carrying no text
C3_Witness ==
    \E s \in Sessions :
        /\ safetyCounter[s] = MAX_ROUNDS
        /\ onePerRound[s]
        /\ pc[s] = "completed"
        /\ searchCount[s] = MAX_ROUNDS
        /\ reply[s].content = Str("")

\* the continuation call of a round is in flight
Resubmitting(s) ==
    pc[s] = "awaitModel" /\ request[s].previous_response_id # Undefined

NamesImageSearch(call) == call.name = "image_search"

ImageSearchCalls(s) == SelectSeq(toolCalls[s], NamesImageSearch)

\* the invocations whose name is in the session's descriptor set
RegisteredCalls(s) ==
    LET hasWebSearch == \E i \in 1..Len(tools[s]) : tools[s][i].type = "web_search"
        Registered(call) ==
            call.name = "image_search" \/ (hasWebSearch /\ call.name = "web_search")
    IN  SelectSeq(toolCalls[s], Registered)

\* a round whose invocations are all skipped resubmits at once, with no result
SkippedRoundResubmits(s, recognized) ==
    (Received(s) >= 1 /\ safetyCounter[s] < MAX_ROUNDS
        /\ toolCalls[s] # <<>> /\ recognized = <<>>) =>
            /\ modelCalls[s] = response[s].id + 1
            /\ \/ Resubmitting(s) /\ request[s].tool_outputs = <<>>
               \/ pc[s] = "failed" /\ raised[s] = Str("model service error")

C5_NoDanglingInvocation ==
    \A s \in Sessions :
        Resubmitting(s) =>
            \A i \in 1..Len(toolCalls[s]) :
                Cardinality({j \in 1..Len(request[s].tool_outputs) :
                    request[s].tool_outputs[j].tool_call_id = toolCalls[s][i].call_id}) = 1

\* an argument payload that is absent, is not JSON, or is JSON for a non-object
Malformed(arguments) ==
    \/ arguments = Undefined
    \/ arguments = ArgBad
    \/ arguments = ArgNull

\* the for-of loop of the current round has reached position i
Reached(s, i) ==
    \/ (pc[s] = "awaitSearch" \/ pc[s] = "failed") /\ callIndex[s] >= i
    \/ Resubmitting(s)

\* C6: an image_search invocation with a malformed argument payload does not
\* abort the session; the search is issued with the default arguments (the
\* resolved default query, count 4) and, once it returns, a result with the
\* invocation's id is recorded.
C6_ArgumentFallback ==
    \A s \in Sessions : \A i \in 1..Len(toolCalls[s]) :
        LET call == toolCalls[s][i]
        IN  (Reached(s, i) /\ NamesImageSearch(call) /\ Malformed(call.arguments)) =>
                /\ [call_id |-> call.call_id,
                    gsrsearch |-> resolvedImageQuery[s],
                    gsrlimit |-> "4"] \in {searches[s][k] : k \in 1..Len(searches[s])}
                /\ (callIndex[s] > i \/ Resubmitting(s)) =>
                      \E k \in 1..Len(toolOutputs[s]) :
                          toolOutputs[s][k].tool_call_id = call.call_id

\* C7: an error raised by a model-service call or by an image search puts the
\* session in Failed, with one reply that carries the error message and no
\* content; a Failed session issues no further model-service call or image
\* search and its reply is final.
C7_FailureWithoutRetry ==
    /\ [](\A s \in Sessions :
            raised[s] # Undefined =>
                /\ pc[s] = "failed"
                /\ reply[s] = [status |-> 500, content |-> Undefined,
                               error |-> raised[s], citations |-> <<>>])
    /\ [][\A s \in Sessions :
            pc[s] = "failed" =>
                /\ pc'[s] = "failed"
                /\ modelCalls'[s] = modelCalls[s]
                /\ searchCount'[s] = searchCount[s]
                /\ searches'[s] = searches[s]
                /\ reply'[s] = reply[s]]_vars

\* the first of two image_search invocations of a round has failed
C7_Witness ==
    \E s \in Sessions :
        /\ pc[s] = "failed"
        /\ raised[s] = Str("Image search failed.")
        /\ Len(ImageSearchCalls(s)) = 2
        /\ Len(searches[s]) = 1

\* C8: without the credential a request is answered with the configuration
\* error at once; no model-service call and no image search is issued.
C8_ConfigurationError ==
    ~openaiClient =>
        \A s \in Sessions :
            /\ modelCalls[s] = 0 /\ searchCount[s] = 0 /\ request[s] = None
            /\ \/ pc[s] = "idle" /\ reply[s] = NoReply
               \/ /\ pc[s] = "failed"
                  /\ reply[s] = [status |-> 500, content |-> Undefined,
                                 error |-> Str("OPENAI_API_KEY is not configured."),
                                 citations |-> <<>>]

\* a request has been answered without the credential
C8_Witness == ~openaiClient /\ \E s \in Sessions : pc[s] = "failed"

\* C9: a first response without invocations completes the session after one
\* model-service call, with that response's text as content, no result and no
\* image search; and a Completed session's content is the text of the latest
\* response received.
C9_ContentOfLastResponse ==
    \A s \in Sessions :
        /\ (Received(s) = 1 /\ collectToolCalls(response[s]) = <<>>) =>
              /\ pc[s] = "completed"
              /\ modelCalls[s] = 1
              /\ toolOutputs[s] = <<>> /\ searches[s] = <<>> /\ searchCount[s] = 0
        /\ pc[s] = "completed" =>
              /\ response[s].id = modelCalls[s]
              /\ reply[s].status = 200
              /\ reply[s].content = response[s].output_text

\* completed on the first response, which carries text and no invocation
C9_Witness ==
    \E s \in Sessions :
        /\ pc[s] = "completed"
        /\ modelCalls[s] = 1
        /\ reply[s].content = Str("lesson text 1")

\* the round just resubmitted had exactly one image_search, well formed
OneWellFormedSearch(s) ==
    /\ Len(ImageSearchCalls(s)) = 1
    /\ ImageSearchCalls(s)[1].arguments = ArgGood

\* C10: when round 0 carried exactly one image_search with the arguments
\* {query: "leaf cells", count: 2} and the response of round 1 carries no
\* invocation, the one search issued was for "leaf cells" with count 2 and the
\* session Completes with two model-service calls in total.
C10_OneSearchThenComplete ==
    [][\A s \in Sessions :
          (/\ Resubmitting(s) /\ modelCalls[s] = 2
           /\ OneWellFormedSearch(s)
           /\ response'[s] # response[s]
           /\ toolCalls'[s] = <<>>) =>
                /\ searches[s] = << [call_id |-> ImageSearchCalls(s)[1].call_id,
                                     gsrsearch |-> "leaf cells",
                                     gsrlimit |-> "2"] >>
                /\ searchCount'[s] = 1
                /\ modelCalls'[s] = 2
                /\ pc'[s] = "completed"
                /\ reply'[s].status = 200]_vars

\* completed on the second response after a single image search
C10_Witness ==
    \E s \in Sessions :
        /\ pc[s] = "completed"
        /\ modelCalls[s] = 2
        /\ searchCount[s] = 1
        /\ toolCalls[s] = <<>>
        /\ response[s].id = 2

(***************************************************************************)
(* The continuation protocol                                               *)
(***************************************************************************)
\* the call ids a list of results or of search requests answers
RECURSIVE IdsOf(_, _)
IdsOf(entries, field) ==
    IF entries = <<>> THEN <<>>
    ELSE <<Head(entries)[field]>> \o IdsOf(Tail(entries), field)

\* C16: the first model-service call of a session carries the system and the
\* user instruction, no continuation identifier and no results; every later
\* call carries no instruction message, the results of the round just
\* executed (each answers an invocation of the latest response) and the
\* identifier of the response received immediately before it; the k-th call
\* is the first for k = 1 and names response k - 1 otherwise, so the
\* identifiers form a chain.
C16_ContinuationProtocol ==
    \A s \in Sessions :
        pc[s] = "awaitModel" =>
            IF modelCalls[s] = 1
            THEN /\ request[s].previous_response_id = Undefined
                 /\ Len(request[s].input) = 2
                 /\ request[s].input[1] = [role |-> "system", content |-> SystemPrompt]
                 /\ request[s].input[2].role = "user"
                 /\ request[s].tool_outputs = <<>>
            ELSE /\ request[s].input = <<>>
                 /\ request[s].previous_response_id = Num(modelCalls[s] - 1)
                 /\ response[s].id = modelCalls[s] - 1
                 /\ request[s].tool_outputs = toolOutputs[s]
                 /\ \A i \in 1..Len(request[s].tool_outputs) :
                        /\ request[s].tool_outputs[i].tool_call_id[1] = response[s].id
                        /\ \E j \in 1..Len(response[s].output) :
                               response[s].output[j].call_id
                                   = request[s].tool_outputs[i].tool_call_id

\* the third continuation of a session is in flight, carrying a result
C16_Witness ==
    \E s \in Sessions :
        /\ pc[s] = "awaitModel"
        /\ modelCalls[s] = 4
        /\ request[s].previous_response_id = Num(3)
        /\ Len(request[s].tool_outputs) > 0

(***************************************************************************)
(* Ordering within a round                                                 *)
(***************************************************************************)
\* the image_search invocations among the first k collected invocations
DispatchedUpTo(s, k) == SelectSeq(SubSeq(toolCalls[s], 1, k), NamesImageSearch)

\* C17: within a round the image_search invocations are executed one at a
\* time in the order the model emitted them: while a search is awaited it is
\* the only one in flight, the searches issued so far are those of the
\* image_search invocations up to the current one, in emission order, and
\* the results collected so far answer the ones before it, in the same
\* order and each under the identifier of its invocation.  The continuation
\* call is in flight only with one result per image_search invocation of the
\* round, in emission order, and the round counter has not yet counted the
\* round: it is incremented when the continuation call has returned.
C17_OrderWithinRound ==
    \A s \in Sessions :
        /\ toolCalls[s] = SelectSeq(response[s].output, IsToolCall)
        /\ pc[s] = "awaitSearch" =>
              /\ callIndex[s] \in 1..Len(toolCalls[s])
              /\ NamesImageSearch(toolCalls[s][callIndex[s]])
              /\ IdsOf(searches[s], "call_id")
                    = IdsOf(DispatchedUpTo(s, callIndex[s]), "call_id")
              /\ IdsOf(toolOutputs[s], "tool_call_id")
                    = IdsOf(DispatchedUpTo(s, callIndex[s] - 1), "call_id")
              /\ Len(searches[s]) = Len(toolOutputs[s]) + 1
              /\ safetyCounter[s] = modelCalls[s] - 1
        /\ Resubmitting(s) =>
              /\ IdsOf(request[s].tool_outputs, "tool_call_id")
                    = IdsOf(ImageSearchCalls(s), "call_id")
              /\ IdsOf(searches[s], "call_id") = IdsOf(ImageSearchCalls(s), "call_id")
              /\ safetyCounter[s] = modelCalls[s] - 2
        /\ (pc[s] = "completed" /\ modelCalls[s] > 0) =>
              safetyCounter[s] = modelCalls[s] - 1

\* a continuation call is in flight with the results of two invocations
C17_Witness ==
    \E s \in Sessions :
        /\ Resubmitting(s)
        /\ Len(request[s].tool_outputs) = 2
        /\ request[s].tool_outputs[1].tool_call_id # request[s].tool_outputs[2].tool_call_id

(***************************************************************************)
(* Terminal states                                                         *)
(***************************************************************************)
\* every awaited external call eventually resolves or rejects, and the event
\* loop then runs the continuation of the handler
FairNext == \E s \in Solo : ConcStep(s)

FairSpec == Init /\ [][FairNext]_vars /\ \A s \in Solo : WF_vars(ConcStep(s))

\* the reply a session has sent matches its position: none before the end
ReplyMatches(s) ==
    CASE pc[s] = "completed" ->
             /\ reply[s].status = 200
             /\ reply[s].content # Undefined
             /\ reply[s].error = Undefined
      [] pc[s] = "failed" ->
             /\ reply[s].status = 500
             /\ reply[s].error # Undefined
             /\ reply[s].content = Undefined
      [] OTHER -> reply[s] = NoReply

\* C18: provided every external call eventually returns or raises, every
\* generation request that starts ends in Completed or in Failed; the two are
\* exclusive; a session has sent a reply exactly when it is terminal (the
\* lesson on Completed, an error on Failed), the reply is sent once, by the
\* step that ends the session, and a terminal session takes no further step:
\* it issues no model-service call and no image search and its state and
\* reply never change.
C18_TerminalStates ==
    /\ \A s \in Sessions : (pc[s] # "idle") ~> Terminal(s)
    /\ [](\A s \in Sessions : ReplyMatches(s))
    /\ [][\A s \in Sessions :
            /\ Terminal(s) => Cur(s)' = Cur(s)
            /\ reply'[s] # reply[s] => (reply[s] = NoReply /\ Terminal(s)'
                                           /\ ~Terminal(s))]_vars

\* a session has completed after a round with an image search
C18_Witness ==
    \E s \in Sessions :
        /\ pc[s] = "completed"
        /\ reply[s].status = 200
        /\ searchCount[s] > 0
        /\ modelCalls[s] > 1

(***************************************************************************)
(* Integrity of the lesson record store                                    *)
(***************************************************************************)
MapKeys(map) == [i \in 1..Len(map) |-> map[i].key]

\* every entry but the one under `id` is the same in both maps
OthersUnchanged(before, after, id) ==
    \A k \in LessonIds \ {id} :
        /\ MapHas(after, k) = MapHas(before, k)
        /\ MapGet(after, k) = MapGet(before, k)

\* what the latest exchange did to the store
ExchangeKeepsIntegrity ==
    LET x == lessonReply'
    IN  CASE x = None -> TRUE
          [] x.method = "GET" ->
                /\ lessons' = lessons
                /\ x.body = MapValues(lessons)
          [] x.method = "POST" ->
                /\ x.status = 201
                /\ ~MapHas(lessons, x.body.id)
                /\ MapGet(lessons', x.body.id) = x.body
                /\ OthersUnchanged(lessons, lessons', x.body.id)
          [] x.method = "PUT" ->
                IF MapHas(lessons, x.id.v)
                THEN /\ x.status = 200
                     /\ MapKeys(lessons') = MapKeys(lessons)
                     /\ MapGet(lessons', x.id.v) = x.body
                     /\ x.body.id = x.id.v
                     /\ OthersUnchanged(lessons, lessons', x.id.v)
                ELSE /\ x.status = 404
                     /\ lessons' = lessons
          [] x.method = "DELETE" ->
                IF MapHas(lessons, x.id.v)
                THEN /\ x.status = 204
                     /\ ~MapHas(lessons', x.id.v)
                     /\ \A i \in 1..Len(MapValues(lessons')) :
                            MapValues(lessons')[i].id # x.id.v
                     /\ OthersUnchanged(lessons, lessons', x.id.v)
                ELSE /\ x.status = 404
                     /\ lessons' = lessons

\* C19: under any sequence of create, update and delete requests every stored
\* record is kept under its own id and no id is stored twice; an update of a
\* stored id replaces that record, which keeps its id and its place, and
\* leaves every other record unchanged; an update or a delete of an id that
\* is not stored replies 404 and leaves the store unchanged, so an update
\* never creates a record; a deleted id is no longer stored or listed, and a
\* create adds one record under a new id and changes no other.
C19_StoreIntegrity ==
    /\ [](\A i \in 1..Len(lessons) :
            /\ lessons[i].key = lessons[i].value.id
            /\ \A j \in 1..Len(lessons) : lessons[j].key = lessons[i].key => j = i)
    /\ [][ExchangeKeepsIntegrity]_vars

\* an update has replaced the first of two stored records, and the id that
\* was deleted before is not stored
C19_Witness ==
    /\ Len(lessons) = 1
    /\ issued = LessonIds
    /\ lessonReply # None
    /\ lessonReply.method = "PUT"
    /\ lessonReply.status = 200
    /\ lessonReply.body.title = Str("")

(***************************************************************************)
(* Session isolation                                                       *)
(***************************************************************************)
\* the local states one segment of the handler can lead to from local state
\* n, whatever else is in flight
LocalSuccessors(n, client) ==
    CASE n.pc = "idle" ->
             {[OnRequest(n, client, req) EXCEPT !.body = req] : req \in ConcRequests}
      [] n.pc = "awaitModel" ->
             {OnModelResponse(n, MakeResponse(n.modelCalls, output)) :
                  output \in ConcOutputs}
             \cup {Throw(n, "model service error")}
      [] n.pc = "awaitSearch" ->
             {OnSearchResult(n, pages) : pages \in Payloads}
             \cup {Throw(n, message) : message \in {"Image search failed.", "fetch failed"}}
      [] OTHER -> {}

\* C11: with two sessions in flight and interleaving arbitrarily at their
\* suspension points, a step that changes one session's state (its round
\* counter, pending invocations, collected results, latest response and its
\* identifier, reply) leads it to a state the handler reaches from that
\* session's own state alone, leaves every other session's state unchanged,
\* and leaves the lesson record store unchanged; so each session runs as
\* if it were alone.
C11_SessionIsolation ==
    [][\A s \in Sessions :
          Cur(s)' # Cur(s) =>
              /\ Cur(s)' \in LocalSuccessors(Cur(s), openaiClient)
              /\ \A t \in Sessions \ {s} : Cur(t)' = Cur(t)
              /\ UNCHANGED <<openaiClient, storeVars, functionVars, clientVars>>]_vars

\* both sessions are in flight, in different rounds and at different
\* suspension points
C11_Witness ==
    /\ pc["s1"] = "awaitSearch"
    /\ safetyCounter["s1"] = 2
    /\ pc["s2"] = "awaitModel"
    /\ safetyCounter["s2"] = 0
    /\ modelCalls["s2"] = 2

(***************************************************************************)
(* The capability descriptors                                              *)
(***************************************************************************)
\* C12: the descriptor list of a session is fixed when the request is read:
\* the web-search descriptor, present exactly when the request's
\* includeWebSearch field is "true", followed by the image_search descriptor
\* (query required, count optional with default 4), which is always present.
\* The session keeps that list unchanged, and every model-service call it
\* issues, the first and each continuation, carries exactly that list: no
\* round adds, removes or reorders a descriptor.
C12_DescriptorsFixed ==
    \A s \in Sessions :
        modelCalls[s] > 0 =>
            LET image == tools[s][Len(tools[s])]
            IN  /\ tools[s] = IF body[s].includeWebSearch = "true"
                              THEN <<[type |-> "web_search", name |-> "none"], image>>
                              ELSE <<image>>
                /\ image.type = "function"
                /\ image.name = "image_search"
                /\ image.parameters.required = <<"query">>
                /\ image.parameters.properties.count.default = DefaultCount
                /\ pc[s] = "awaitModel" => request[s].tools = tools[s]

\* a continuation call of a session that asked for web search is in flight
\* while a first call of a session that did not is in flight
C12_Witness ==
    \E s, t \in Sessions :
        /\ Resubmitting(s)
        /\ modelCalls[s] = 3
        /\ Len(request[s].tools) = 2
        /\ pc[t] = "awaitModel"
        /\ modelCalls[t] = 1
        /\ Len(request[t].tools) = 1

(***************************************************************************)
(* The upload digest                                                       *)
(***************************************************************************)
\* the characters file i contributes after its name
Kept(i) ==
    LET text == uploadedFiles[i].buffer.utf8
    IN  IF Len(text) <= SliceEnd THEN text ELSE SubSeq(text, 1, SliceEnd)

Block(i) == "File: " \o uploadedFiles[i].originalname \o "\n" \o Kept(i)

\* the blocks of the first k files, a blank line between two of them
RECURSIVE BlocksUpTo(_)
BlocksUpTo(k) ==
    IF k = 1 THEN Block(1) ELSE BlocksUpTo(k - 1) \o "\n\n" \o Block(k)

RECURSIVE LengthUpTo(_)
LengthUpTo(k) ==
    IF k = 0 THEN 0
    ELSE LengthUpTo(k - 1) + (IF k > 1 THEN 2 ELSE 0)
           + 6 + Len(uploadedFiles[k].originalname) + 1
           + (IF Len(uploadedFiles[k].buffer.utf8) < SliceEnd
              THEN Len(uploadedFiles[k].buffer.utf8) ELSE SliceEnd)

\* C13: the context built from the uploaded files is, when there is no file,
\* the fixed placeholder "No uploaded files provided." and not the empty
\* string; otherwise it is one block per file, in upload order, two blocks
\* separated by a blank line, where a block is "File: ", the file's name, a
\* line break and the first 4000 characters of the file's text, the whole
\* text when it is shorter: a file of 10,000 characters contributes exactly
\* 4,000.
C13_UploadDigest ==
    uploadContext # None =>
        IF uploadedFiles = <<>>
        THEN uploadContext = Str("No uploaded files provided.")
        ELSE /\ uploadContext = Str(BlocksUpTo(Len(uploadedFiles)))
             /\ Len(uploadContext.v) = LengthUpTo(Len(uploadedFiles))
             /\ \A i \in 1..Len(uploadedFiles) :
                    /\ Len(Kept(i)) <= SliceEnd
                    /\ Kept(i) \o SubSeq(uploadedFiles[i].buffer.utf8, Len(Kept(i)) + 1,
                                          Len(uploadedFiles[i].buffer.utf8))
                          = uploadedFiles[i].buffer.utf8

\* the digest of a short file followed by a file of 10,000 characters, of
\* which it holds exactly 4,000
C13_Witness ==
    /\ Len(uploadedFiles) = 2
    /\ Len(uploadedFiles[1].buffer.utf8) = 3
    /\ Len(uploadedFiles[2].buffer.utf8) = 10000
    /\ uploadContext # None
    /\ Len(uploadContext.v) = (6 + Len(uploadedFiles[1].originalname) + 1 + 3) + 2
                                   + (6 + Len(uploadedFiles[2].originalname) + 1 + 4000)

(***************************************************************************)
(* The image search result mapping                                         *)
(***************************************************************************)
\* the pages of the payload in the order the service listed them
ListedPages ==
    IF searchResponse.json.query = Undefined THEN <<>>
    ELSE [i \in 1..Len(searchResponse.json.query.pages) |->
             searchResponse.json.query.pages[i].value]

\* C14: performImageSearch returns, in the order in which the payload lists
\* its pages, exactly one result for each page with a non-empty imageinfo
\* list and none for the others; every result has a title, an image url and
\* a source page url; a non-success status yields an error and no list.
C14_ResultMapping ==
    searchResult # None =>
        IF ~searchResponse.ok
        THEN /\ searchResult.threw # Undefined
             /\ searchResult.returned = Undefined
        ELSE LET kept == SelectSeq(ListedPages, HasImage)
                 images == searchResult.returned
             IN  /\ searchResult.threw = Undefined
                 /\ Len(images) = Len(kept)
                 /\ \A i \in 1..Len(kept) :
                        /\ images[i].title = kept[i].title
                        /\ images[i].url = kept[i].imageinfo[1]
                        /\ images[i].pageUrl
                              = "https://commons.wikimedia.org/wiki/" \o kept[i].title

(***************************************************************************)
(* The prompts                                                             *)
(***************************************************************************)
PromptFields == {"topic", "gradeLevel", "duration", "objectives", "youtubeUrl"}

\* C15: two invocations of the handler whose requests agree on the fields the
\* prompts embed, on the upload digest and on the resolved image query send
\* identical system and user instructions, whatever else differs and
\* whichever built its prompts first.  The resolved image query is the
\* caller's image query, trimmed, when that is not empty, and otherwise the
\* topic (the word "lesson" when there is none) followed by
\* " classroom illustration".
C15_PromptDeterminism ==
    /\ \A s, t \in Sessions :
          ( /\ pc[s] = "awaitModel"
            /\ pc[t] = "awaitModel"
            /\ \A f \in PromptFields : body[s][f] = body[t][f]
            /\ ContextFromFiles(body[s].files) = ContextFromFiles(body[t].files)
            /\ resolvedImageQuery[s] = resolvedImageQuery[t] )
          => request[s].input = request[t].input
    /\ \A s \in Sessions :
          pc[s] = "awaitModel" =>
              resolvedImageQuery[s] =
                  IF body[s].imageSearchQuery = Str(" chloroplast ") THEN "chloroplast"
                  ELSE IF body[s].topic = Str("Photosynthesis")
                       THEN "Photosynthesis classroom illustration"
                       ELSE "lesson classroom illustration"

\* two requests that differ, one with a blank image query and one with none,
\* have led to the same instructions
C15_Witness ==
    /\ pc["s1"] = "awaitModel"
    /\ pc["s2"] = "awaitModel"
    /\ body["s1"].imageSearchQuery = Str("  ")
    /\ body["s2"].imageSearchQuery = Undefined
    /\ body["s1"].includeWebSearch # body["s2"].includeWebSearch
    /\ Len(body["s1"].files) = 1
    /\ request["s1"].input = request["s2"].input

(***************************************************************************)
(* The client's edit selection                                             *)
(***************************************************************************)
\* C20: under any interleaving of Edit clicks, Delete clicks, submits and
\* resets with requests in flight: a submit sends PUT for lesson L exactly
\* when L is selected (activeLessonId) at the moment of the submit, and POST
\* when nothing is selected; when the request of a submit has completed and
\* its handler has run on, and when Reset is clicked, no lesson is selected;
\* and "Lesson updated." is shown only by a submit that sent PUT and whose
\* update the server applied to a stored lesson (reply 200).
C20_EditSelection ==
    [][/\ \A h \in Handlers :
            /\ (inflight[h] = NoHandler /\ inflight'[h].kind = "submit") =>
                   IF activeLessonId = Null
                   THEN inflight'[h].method = "POST"
                   ELSE inflight'[h].method = "PUT" /\ inflight'[h].id = activeLessonId
            /\ ( /\ inflight[h].kind = "submit"
                 /\ inflight[h].at = "awaitFetch"
                 /\ inflight'[h].at = "awaitList" ) =>
                   /\ activeLessonId' = Null
                   /\ feedback' = "Lesson updated." =>
                          (inflight[h].method = "PUT" /\ inflight[h].status = 200)
       /\ (inflight' = inflight /\ feedback' # feedback /\ feedback' = "") =>
              activeLessonId' = Null]_vars

====
